---- MODULE Spec2Model ----
(***************************************************************************)
(* A model of the service lifecycle orchestrator: defineLifecycle          *)
(* (lifecycle.ts), setupShutdownHandlers (shutdown.ts) and the health      *)
(* check service handle (healthcheck.ts).                                  *)
(*                                                                         *)
(* JavaScript runs one task at a time, so the code between two awaits is   *)
(* one atomic step.  Every async function invocation is a record with a    *)
(* position (pc); an action runs one synchronous segment of one            *)
(* invocation.  The segments are pure operators over a record `s` holding  *)
(* the mutable program state, so that a segment can call another one       *)
(* (a signal handler calling shutdown(), init() calling emit()).           *)
(*                                                                         *)
(* User callbacks (onInit, onFailure, onShutdown, onPing, isHealthy), the  *)
(* listeners and the health server's close() belong to the environment:    *)
(* when and how they settle is a nondeterministic choice.                  *)
(***************************************************************************)
EXTENDS Integers, Sequences, FiniteSets, TLC

VARIABLES
    config,              \* LifecycleConfig: which callbacks exist, dependencies
    listeners,           \* emitter: event name -> listeners in registration order
    dependencyHealth,    \* Map<string, boolean>
    healthCheckService,  \* the stored handle: a server id, or NoService (null)
    servers,             \* started health servers: id -> number of close() calls
    handlers,            \* setupShutdownHandlers registrations, in order: the cb
    emitted,             \* event name -> payloads of every emit(), in order
    invoked,             \* callback name -> arguments of every invocation
    heard,               \* every invocation of a listener, in order
    returned,            \* what on() and emit() returned to the program
    inits,               \* init() invocations
    shutdowns,           \* shutdown() invocations
    signals,             \* signal handler invocations
    queries,             \* getHealthState() invocations
    requests,            \* HTTP requests the health server received
    received,            \* the signals the process received, in order
    exitCode,            \* Running, or the code process.exit was called with
    now                  \* Date.now()

vars == <<config, listeners, dependencyHealth, healthCheckService, servers,
          handlers, emitted, invoked, heard, returned, inits, shutdowns,
          signals, queries, requests, received, exitCode, now>>

-----------------------------------------------------------------------------
(* Bounds of the model *)

MaxDeps == 2
MaxCalls == 3
MaxClock == 2
MaxUserSetups == 2
MaxListeners == 2

-----------------------------------------------------------------------------
(* Values *)

DepNames == <<"db", "queue", "cache">>

NoDuplicates(seq) == \A i, j \in DOMAIN seq : i # j => seq[i] # seq[j]

\* the dependency lists tried: none, and MaxDeps distinct names (the
\* registry is keyed by name, and no operation reads a name)
Distinct(n) == SubSeq(DepNames, 1, n)
DepLists == {<<>>, Distinct(MaxDeps)}

None == "none"                  \* no payload / no error / resolved
Running == -1                   \* process.exit not called yet
NoService == 0                  \* healthCheckService = null

LifecycleEvents == {"init", "ready", "failure", "done"}
\* a program may use other names: the one tried is the name that
\* EventEmitter treats specially
EventNames == LifecycleEvents \cup {"error"}
Callbacks == {"onInit", "onFailure", "onShutdown", "onPing", "isHealthy", "userCb"}

InitErrors == {"X"}             \* what onInit may reject with
FailureErrors == {"E2"}         \* what onFailure may reject with
ShutdownErrors == {"ES"}        \* what onShutdown may reject with
CloseErrors == {"ERR_SERVER_NOT_RUNNING"}  \* what close() may reject with
UserCbErrors == {"EU"}          \* what a user shutdown callback may reject with
ListenerError == "EL"           \* what a throwing listener throws

Sigterm == "Symbol(SIGTERM)"
Sigint == "Symbol(SIGINT)"
NodeSignals == {"SIGTERM", "SIGINT"}

-----------------------------------------------------------------------------
(* The mutable program state as one record *)

St ==
    [dependencyHealth |-> dependencyHealth,
     healthCheckService |-> healthCheckService,
     servers |-> servers,
     handlers |-> handlers,
     emitted |-> emitted,
     invoked |-> invoked,
     heard |-> heard,
     inits |-> inits,
     shutdowns |-> shutdowns,
     signals |-> signals,
     received |-> received,
     exitCode |-> exitCode]

Apply(t) ==
    /\ dependencyHealth' = t.dependencyHealth
    /\ healthCheckService' = t.healthCheckService
    /\ servers' = t.servers
    /\ handlers' = t.handlers
    /\ emitted' = t.emitted
    /\ invoked' = t.invoked
    /\ heard' = t.heard
    /\ inits' = t.inits
    /\ shutdowns' = t.shutdowns
    /\ signals' = t.signals
    /\ received' = t.received
    /\ exitCode' = t.exitCode

\* one step of an invocation, appended to its own log
Log(rec, op, name, arg) ==
    [rec EXCEPT !.log = Append(@, [op |-> op, name |-> name, arg |-> arg])]

-----------------------------------------------------------------------------
(* EventEmitter *)

\* emit(name): a listener that throws makes emit() throw to its caller
Throws(name) == \E k \in DOMAIN listeners[name] : listeners[name][k] = "T"

\* mutant of Run: the listeners run last registered first
RECURSIVE RunLastFirst(_)
RunLastFirst(ls) ==
    IF ls = <<>> THEN <<>>
    ELSE IF ls[Len(ls)] = "T" THEN <<ls[Len(ls)]>>
    ELSE <<ls[Len(ls)]>> \o RunLastFirst(SubSeq(ls, 1, Len(ls) - 1))

\* the listeners of a list that run: in order, up to the first that throws
RECURSIVE Run(_)
Run(ls) ==
    IF ls = <<>> THEN <<>>
    ELSE IF Head(ls) = "T" THEN <<Head(ls)>>
    ELSE <<Head(ls)>> \o Run(Tail(ls))

\* a listener invoked with the payload, and what it can see of the
\* lifecycle at that moment; by tells which code called emit()
Hearing(s, listener, position, name, payload, by) ==
    [listener |-> listener, event |-> name, arg |-> payload,
     by |-> by, emission |-> Len(s.emitted[name]) + 1,
     position |-> position, registered |-> Len(listeners[name]),
     registry |-> s.dependencyHealth, handle |-> s.healthCheckService,
     handlers |-> s.handlers]

\* emitter.emit(name, payload)
Emit(s, name, payload, by) ==
    LET ran == Run(listeners[name]) IN
    [s EXCEPT !.emitted[name] = Append(@, payload),
              !.heard = @ \o [k \in DOMAIN ran |->
                                  Hearing(s, ran[k], k, name, payload, by)]]

\* process.exit(code)
ProcessExit(s, code) == [s EXCEPT !.exitCode = code]

\* invoking a user callback
Invoke(s, fn, arg) == [s EXCEPT !.invoked[fn] = Append(@, arg)]

-----------------------------------------------------------------------------
(* The lifecycle phase of the specification's state machine, read off the   *)
(* history: the code keeps no state field.                                  *)

Phase(s) ==
    IF s.exitCode # Running \/ Len(s.emitted["done"]) > 0 THEN "Done"
    ELSE IF Len(s.shutdowns) > 0 THEN "ShuttingDown"
    ELSE IF Len(s.inits) = 0 THEN "Created"
    ELSE IF s.inits[1].pc = "awaitOnInit" THEN "Initializing"
    ELSE IF s.inits[1].pc = "resolved" THEN "Ready"
    ELSE "Failed"

-----------------------------------------------------------------------------
(* defineLifecycle: init() *)

InitEmit(s, i, name, payload) ==
    [Emit(s, name, payload, "init") EXCEPT !.inits[i] = Log(@, "emit", name, payload)]

InitReject(s, i, error) ==
    [s EXCEPT !.inits[i] = [Log(@, "reject", "init", error) EXCEPT
                                !.pc = "rejected", !.err = error]]

\* the catch block of init()
InitCatch(s, i, error) ==
    LET e == InitEmit(s, i, "failure", error) IN
    IF Throws("failure") THEN InitReject(e, i, ListenerError)
    ELSE IF config.onFailure
    THEN [Invoke(e, "onFailure", error) EXCEPT
              !.inits[i] = [Log(@, "call", "onFailure", error) EXCEPT
                                !.pc = "awaitOnFailure", !.caught = error]]
    ELSE InitReject(e, i, error)

\* for (const dep of dependencyHealth.keys()) dependencyHealth.set(dep, true)
MarkAllReady(s, i) ==
    [s EXCEPT !.dependencyHealth = [d \in DOMAIN @ |-> TRUE],
              !.inits[i] = Log(@, "mark", "dependencies", None)]

\* mutant of StartHealthCheckServer: the handle returned is not stored
StartHealthCheckServerDropsHandle(s, i) ==
    [s EXCEPT !.servers = Append(@, 0),
              !.inits[i] = Log(@, "start", "healthCheckServer", None)]

\* healthCheckService = startHealthCheckServer(createHealthCheckCallback())
StartHealthCheckServer(s, i) ==
    [s EXCEPT !.servers = Append(@, 0),
              !.healthCheckService = Len(s.servers) + 1,
              !.inits[i] = Log(@, "start", "healthCheckServer", None)]

\* setupShutdownHandlers(cb): process.on for SIGTERM and for SIGINT
SetupShutdownHandlers(s, cb) == [s EXCEPT !.handlers = Append(@, cb)]

\* mutant of InitReady: `ready` is emitted a second time
InitReadyEmitsTwice(s, i) ==
    LET started == StartHealthCheckServer(MarkAllReady(s, i), i)
        registered == [SetupShutdownHandlers(started, "shutdown") EXCEPT
                           !.inits[i] = Log(@, "register", "signalHandlers", None)]
        e == InitEmit(InitEmit(registered, i, "ready", None), i, "ready", None)
    IN  IF Throws("ready") THEN InitCatch(e, i, ListenerError)
        ELSE [e EXCEPT !.inits[i] = [Log(@, "resolve", "init", None) EXCEPT
                                         !.pc = "resolved"]]

\* mutant of InitReady: `ready` is emitted before the rest is done
InitReadyEmitsFirst(s, i) ==
    LET e == InitEmit(s, i, "ready", None)
        started == StartHealthCheckServer(MarkAllReady(e, i), i)
        registered == [SetupShutdownHandlers(started, "shutdown") EXCEPT
                           !.inits[i] = Log(@, "register", "signalHandlers", None)]
    IN  IF Throws("ready") THEN InitCatch(e, i, ListenerError)
        ELSE [registered EXCEPT
                  !.inits[i] = [Log(@, "resolve", "init", None) EXCEPT
                                    !.pc = "resolved"]]

\* init() after onInit: lines 174-185
InitReady(s, i) ==
    LET started == StartHealthCheckServer(MarkAllReady(s, i), i)
        registered == [SetupShutdownHandlers(started, "shutdown") EXCEPT
                           !.inits[i] = Log(@, "register", "signalHandlers", None)]
        e == InitEmit(registered, i, "ready", None)
    IN  IF Throws("ready") THEN InitCatch(e, i, ListenerError)
        ELSE [e EXCEPT !.inits[i] = [Log(@, "resolve", "init", None) EXCEPT
                                         !.pc = "resolved"]]

\* mutant of InitEnter: the registry is marked before onInit is awaited
InitEnterMarksEarly(s) ==
    LET i == Len(s.inits) + 1
        s0 == [s EXCEPT !.inits = Append(@, [pc |-> "running", err |-> None,
                                             caught |-> None, onInitErr |-> None,
                                             phase |-> Phase(s), log |-> <<>>]),
                        !.dependencyHealth = [d \in DOMAIN @ |-> TRUE]]
        e == InitEmit(s0, i, "init", None)
    IN  IF Throws("init") THEN InitCatch(e, i, ListenerError)
        ELSE IF config.onInit
        THEN [Invoke(e, "onInit", None) EXCEPT
                  !.inits[i] = [Log(@, "call", "onInit", None) EXCEPT
                                    !.pc = "awaitOnInit"]]
        ELSE InitReady(e, i)

\* init() from its invocation to its first await
InitEnter(s) ==
    LET i == Len(s.inits) + 1
        s0 == [s EXCEPT !.inits = Append(@, [pc |-> "running", err |-> None,
                                             caught |-> None, onInitErr |-> None,
                                             phase |-> Phase(s), log |-> <<>>])]
        e == InitEmit(s0, i, "init", None)
    IN  IF Throws("init") THEN InitCatch(e, i, ListenerError)
        ELSE IF config.onInit
        THEN [Invoke(e, "onInit", None) EXCEPT
                  !.inits[i] = [Log(@, "call", "onInit", None) EXCEPT
                                    !.pc = "awaitOnInit"]]
        ELSE InitReady(e, i)

\* init() resumed when onInit settles (outcome None: resolved)
InitAfterOnInit(s, i, outcome) ==
    LET s0 == [s EXCEPT !.inits[i] = Log(@, "settle", "onInit", outcome)] IN
    IF outcome = None THEN InitReady(s0, i)
    ELSE InitCatch([s0 EXCEPT !.inits[i].onInitErr = outcome], i, outcome)

\* mutant of InitAfterOnFailure: the error is not thrown again
InitAfterOnFailureSwallows(s, i, outcome) ==
    LET s0 == [s EXCEPT !.inits[i] = Log(@, "settle", "onFailure", outcome)] IN
    IF outcome = None
    THEN [s0 EXCEPT !.inits[i] = [Log(@, "resolve", "init", None) EXCEPT
                                      !.pc = "resolved"]]
    ELSE InitReject(s0, i, outcome)

\* mutant of InitAfterOnFailure: the first error is thrown whatever
\* onFailure did
InitAfterOnFailureRethrowsFirst(s, i, outcome) ==
    LET s0 == [s EXCEPT !.inits[i] = Log(@, "settle", "onFailure", outcome)] IN
    InitReject(s0, i, s.inits[i].caught)

\* init() resumed when onFailure settles: throw error, or onFailure's own
InitAfterOnFailure(s, i, outcome) ==
    LET s0 == [s EXCEPT !.inits[i] = Log(@, "settle", "onFailure", outcome)] IN
    IF outcome = None THEN InitReject(s0, i, s.inits[i].caught)
    ELSE InitReject(s0, i, outcome)

-----------------------------------------------------------------------------
(* defineLifecycle: shutdown() *)

ShutdownReject(s, r, error) ==
    [s EXCEPT !.shutdowns[r] = [Log(@, "reject", "shutdown", error) EXCEPT
                                    !.pc = "rejected", !.err = error]]

\* emitter.emit('done'); process.exit(0)
ShutdownFinish(s, r) ==
    LET e == [Emit(s, "done", None, "shutdown") EXCEPT
                  !.shutdowns[r] = Log(@, "emit", "done", None)]
    IN  IF Throws("done") THEN ShutdownReject(e, r, ListenerError)
        ELSE [ProcessExit(e, 0) EXCEPT
                  !.shutdowns[r] = [Log(@, "exit", "process", None) EXCEPT
                                        !.pc = "exited"]]

\* mutant of ShutdownCleanup: onShutdown is called but not awaited
ShutdownCleanupNotAwaited(s, r) ==
    IF config.onShutdown
    THEN ShutdownFinish(
             [Invoke(s, "onShutdown", None) EXCEPT
                  !.shutdowns[r] = Log(@, "call", "onShutdown", None)], r)
    ELSE ShutdownFinish(s, r)

\* if (config.onShutdown) await config.onShutdown()
ShutdownCleanup(s, r) ==
    IF config.onShutdown
    THEN [Invoke(s, "onShutdown", None) EXCEPT
              !.shutdowns[r] = [Log(@, "call", "onShutdown", None) EXCEPT
                                    !.pc = "awaitOnShutdown"]]
    ELSE ShutdownFinish(s, r)

\* mutant of ShutdownClose: close() is called but not awaited
ShutdownCloseNotAwaited(s, r) ==
    IF s.healthCheckService # NoService
    THEN ShutdownCleanup(
             [s EXCEPT !.servers[s.healthCheckService] = @ + 1,
                       !.shutdowns[r] = [Log(@, "call", "close", None) EXCEPT
                                             !.server = s.healthCheckService]], r)
    ELSE ShutdownCleanup(s, r)

\* if (healthCheckService) await healthCheckService.close()
ShutdownClose(s, r) ==
    IF s.healthCheckService # NoService
    THEN [s EXCEPT !.servers[s.healthCheckService] = @ + 1,
                   !.shutdowns[r] = [Log(@, "call", "close", None) EXCEPT
                                         !.pc = "awaitClose",
                                         !.server = s.healthCheckService]]
    ELSE ShutdownCleanup(s, r)

\* shutdown() from its invocation to its first await; via is the signal
\* handler invocation that called it, 0 for a direct call
ShutdownEnter(s, via) ==
    LET r == Len(s.shutdowns) + 1
        s0 == [s EXCEPT !.shutdowns = Append(@, [pc |-> "running", err |-> None,
                                                 via |-> via, server |-> NoService,
                                                 handle |-> s.healthCheckService,
                                                 phase |-> Phase(s), log |-> <<>>])]
    IN  ShutdownClose(s0, r)

\* shutdown() resumed when close() settles
ShutdownAfterClose(s, r, outcome) ==
    LET s0 == [s EXCEPT !.shutdowns[r] = Log(@, "settle", "close", outcome)] IN
    IF outcome = None THEN ShutdownCleanup(s0, r)
    ELSE ShutdownReject(s0, r, outcome)

\* shutdown() resumed when onShutdown settles
ShutdownAfterOnShutdown(s, r, outcome) ==
    LET s0 == [s EXCEPT !.shutdowns[r] = Log(@, "settle", "onShutdown", outcome)] IN
    IF outcome = None THEN ShutdownFinish(s0, r)
    ELSE ShutdownReject(s0, r, outcome)

-----------------------------------------------------------------------------
(* setupShutdownHandlers: the handlers of one registration *)

\* mutant of HandleSignal: both handlers are built with the SIGTERM symbol
HandleSignalOneSymbol(event) ==
    [nodeSignal |-> event, shutdownSignal |-> Sigterm]

\* process.on('SIGTERM', handleSignal('SIGTERM', SIGTERM));
\* process.on('SIGINT', handleSignal('SIGINT', SIGINT));
HandleSignal(event) ==
    IF event = "SIGTERM"
    THEN [nodeSignal |-> "SIGTERM", shutdownSignal |-> Sigterm]
    ELSE [nodeSignal |-> "SIGINT", shutdownSignal |-> Sigint]

\* the handler after its try/catch: process.exit(0)
HandlerExit(s, h) ==
    [ProcessExit(s, 0) EXCEPT
         !.signals[h] = [Log(@, "exit", "process", None) EXCEPT !.pc = "exited"]]

\* the handler of registration k, from the signal to its first await
\* (cb "none": setupShutdownHandlers() was given no callback)
HandlerEnter(s, k, event) ==
    LET h == Len(s.signals) + 1
        p == HandleSignal(event)
        cb == s.handlers[k]
        s0 == [s EXCEPT !.signals = Append(@, [pc |-> "running", cb |-> cb,
                                               event |-> event, reg |-> k,
                                               delivery |-> Len(s.received),
                                               nodeSignal |-> p.nodeSignal,
                                               arg |-> None, run |-> 0,
                                               cbState |-> None, log |-> <<>>])]
        called == [s0 EXCEPT !.signals[h] =
                       [Log(@, "call", "onShutdown", p.shutdownSignal) EXCEPT
                            !.pc = "awaitCb", !.arg = p.shutdownSignal,
                            !.cbState = "pending"]]
    IN  IF cb = "none" THEN HandlerExit(s0, h)
        ELSE IF cb = "shutdown"
        THEN [ShutdownEnter(called, h) EXCEPT
                  !.signals[h].run = Len(s.shutdowns) + 1]
        ELSE Invoke(called, "userCb", p.shutdownSignal)

\* the process emits the signal: its listeners run in registration order,
\* until one of them ends the process
RECURSIVE DeliverSignal(_, _, _)
DeliverSignal(s, k, event) ==
    IF k > Len(s.handlers) \/ s.exitCode # Running THEN s
    ELSE DeliverSignal(HandlerEnter(s, k, event), k + 1, event)

\* process.emit(event) by the runtime
ReceiveEvent(s, event) ==
    DeliverSignal([s EXCEPT !.received = Append(@, event)], 1, event)

\* the handler resumed when its callback settled
HandlerResume(s, h, outcome) ==
    HandlerExit([s EXCEPT !.signals[h] =
                     [Log(@, "settle", "onShutdown", outcome) EXCEPT
                          !.cbState = IF outcome = None THEN "resolved"
                                      ELSE "rejected"]], h)

-----------------------------------------------------------------------------
(* defineLifecycle: getHealthState() *)

\* JavaScript values of a HealthState, tagged with their type
Num(n) == [t |-> "number", v |-> n]
Bool(b) == [t |-> "boolean", v |-> b]
Obj(m) == [t |-> "object", v |-> m]
Undefined == [t |-> "undefined", v |-> 0]

EmptyObject == [k \in {} |-> Undefined]
ReservedKeys == {"healthy", "timestamp", "dependencies"}

\* what onPing may resolve with: Partial<HealthState>
PingResults ==
    {[count |-> Num(7)],
     [healthy |-> Bool(FALSE), timestamp |-> Num(0)],
     [dependencies |-> Obj(EmptyObject)]}
PingErrors == {"EP"}            \* what onPing may reject with
HealthyErrors == {"EH"}         \* what isHealthy may reject with

\* { ...a, ...b }: the keys of b replace those of a
Spread(a, b) ==
    [k \in DOMAIN a \cup DOMAIN b |-> IF k \in DOMAIN b THEN b[k] ELSE a[k]]

\* Array.from(dependencyHealth.values()).every(v => v)
EveryDependency(health) == \A d \in DOMAIN health : health[d]

\* mutant of HealthState: the result of onPing is not merged in
HealthStateDropsCustom(healthy, timestamp, deps, customState) ==
    [healthy |-> Bool(healthy),
     timestamp |-> Num(timestamp),
     dependencies |-> IF DOMAIN deps # {} THEN Obj(deps) ELSE Undefined]

\* the object literal of lines 108-113
HealthState(healthy, timestamp, deps, customState) ==
    Spread([healthy |-> Bool(healthy),
            timestamp |-> Num(timestamp),
            dependencies |-> IF DOMAIN deps # {} THEN Obj(deps) ELSE Undefined],
           customState)

\* mutant of QueryReturn: the later the clock, the smaller the timestamp
QueryReturnClockBackwards(q, healthy, clock) ==
    [Log(q, "return", "getHealthState", None) EXCEPT
         !.pc = "returned", !.healthy = Bool(healthy),
         !.result = HealthState(healthy, MaxClock + 1 - clock, q.deps,
                                q.customState)]

\* return { healthy, timestamp: Date.now(), dependencies, ...customState }
QueryReturn(q, healthy, clock) ==
    [Log(q, "return", "getHealthState", None) EXCEPT
         !.pc = "returned", !.healthy = Bool(healthy),
         !.result = HealthState(healthy, clock, q.deps, q.customState)]

\* mutant of QueryReject: the failure is swallowed and a default snapshot
\* is returned
QueryRejectSwallows(q, error) ==
    [Log(q, "return", "getHealthState", None) EXCEPT
         !.pc = "returned", !.healthy = Bool(FALSE),
         !.result = HealthState(FALSE, 0, q.deps, EmptyObject)]

QueryReject(q, error) ==
    [Log(q, "reject", "getHealthState", error) EXCEPT
         !.pc = "rejected", !.err = error]

\* lines 101-106: read the registry, then decide healthy
QueryRead(q, customState, health, clock) ==
    LET q0 == [q EXCEPT !.customState = customState, !.deps = health] IN
    IF config.isHealthy
    THEN [Log(q0, "call", "isHealthy", None) EXCEPT !.pc = "awaitIsHealthy"]
    ELSE QueryReturn(q0, EveryDependency(health), clock)

\* getHealthState() from its invocation to its first await
QueryEnter(health, clock) ==
    LET q == [pc |-> "running", err |-> None, customState |-> EmptyObject,
              deps |-> health, healthy |-> Undefined, result |-> EmptyObject,
              log |-> <<>>]
    IN  IF config.onPing
        THEN [Log(q, "call", "onPing", None) EXCEPT !.pc = "awaitOnPing"]
        ELSE QueryRead(q, EmptyObject, health, clock)

-----------------------------------------------------------------------------
(* The health endpoint: startHealthCheckServer and the callback that        *)
(* defineLifecycle hands to it                                              *)

Str(s) == [t |-> "string", v |-> s]

\* a value JSON.stringify throws on (an object that refers to itself)
Circular == [t |-> "circular", v |-> 0]

\* a `dependencies` mapping of onPing's own: the first name up, the rest down
MixedFlags ==
    [d \in {DepNames[k] : k \in 1..MaxDeps} |-> d = DepNames[1]]

\* what onPing may resolve with when the endpoint is exercised
EndpointPingResults ==
    PingResults \cup {[self |-> Circular], [dependencies |-> Obj(MixedFlags)]}

\* the requests tried
HttpRequests ==
    {[url |-> "/health", method |-> "GET"],
     [url |-> "/health", method |-> "POST"],
     [url |-> "/other", method |-> "GET"]}

\* state.healthy ? 200 : 503
Truthy(value) ==
    IF value.t = "boolean" THEN value.v
    ELSE IF value.t = "number" THEN value.v # 0
    ELSE value.t # "undefined"

\* JSON.stringify(state) throws on a value it cannot encode
Serializable(state) == \A key \in DOMAIN state : state[key].t # "circular"

\* JSON.stringify(state): a key whose value is undefined is left out
JSONStringify(state) ==
    [key \in {j \in DOMAIN state : state[j].t # "undefined"} |-> state[key]]

\* res.writeHead(404); res.end()
NotFound == [status |-> 404, body |-> EmptyObject]

\* the .catch branch: logger.error, then 503 with the error body
ErrorBody ==
    [healthy |-> Bool(FALSE), error |-> Str("Failed to get health state")]
ErrorResponse == [status |-> 503, body |-> ErrorBody]

\* mutant of StateResponse: the status does not depend on state.healthy
StateResponseAlwaysOk(state) ==
    [status |-> 200, body |-> JSONStringify(state)]

\* the .then branch; an exception of JSON.stringify is thrown before
\* writeHead and lands in the .catch branch
StateResponse(state) ==
    [status |-> IF Truthy(state["healthy"]) THEN 200 ELSE 503,
     body |-> JSONStringify(state)]

\* mutant of CallbackSettled: no .catch, a failure is left unanswered
CallbackSettledNoCatch(req, q) ==
    IF q.pc = "returned" /\ Serializable(q.result)
    THEN [req EXCEPT !.responses = Append(@, StateResponse(q.result))]
    ELSE req

\* the reactions of createHealthCheckCallback to the settled getHealthState()
CallbackSettled(req, q) ==
    IF q.pc = "returned" /\ Serializable(q.result)
    THEN [req EXCEPT !.responses = Append(@, StateResponse(q.result))]
    ELSE [req EXCEPT !.responses = Append(@, ErrorResponse),
                     !.logged = @ + 1]

\* the requests waiting for query k are answered once it has settled
Answer(reqs, k, q) ==
    [r \in DOMAIN reqs |->
         IF reqs[r].query = k /\ q.pc \in {"returned", "rejected"}
         THEN CallbackSettled(reqs[r], q)
         ELSE reqs[r]]

\* http.createServer((req, res) => ...) of startHealthCheckServer: only
\* GET /health reaches the callback, which checks the url once more
Routed(req) ==
    /\ req.url = "/health" /\ req.method = "GET"
    /\ req.url = "/health"

\* a request as the server received it; query is the getHealthState()
\* invocation that serves it, 0 when there is none; failedBefore counts the
\* requests that had been answered with the error body when it arrived
Received(req, query, reqs) ==
    [url |-> req.url, method |-> req.method, query |-> query,
     failedBefore |-> Cardinality({r \in DOMAIN reqs : reqs[r].logged > 0}),
     responses |-> <<>>, logged |-> 0]

-----------------------------------------------------------------------------
(* Initial states: a freshly constructed lifecycle *)

NoListeners == [e \in EventNames |-> <<>>]

\* at most one listener, which throws, registered before init()
ListenerSetups ==
    {NoListeners} \cup
    {[NoListeners EXCEPT ![e] = <<"T">>] : e \in LifecycleEvents}

\* defineLifecycle(config): lines 84-94
Construct(c, ls) ==
    /\ config = c
    /\ listeners = ls
    /\ dependencyHealth =
           [d \in {c.dependencies[k] : k \in DOMAIN c.dependencies} |-> FALSE]
    /\ healthCheckService = NoService
    /\ servers = <<>>
    /\ handlers = <<>>
    /\ emitted = [e \in EventNames |-> <<>>]
    /\ invoked = [f \in Callbacks |-> <<>>]
    /\ heard = <<>>
    /\ returned = <<>>
    /\ inits = <<>>
    /\ shutdowns = <<>>
    /\ signals = <<>>
    /\ queries = <<>>
    /\ requests = <<>>
    /\ received = <<>>
    /\ exitCode = Running
    /\ now = 1

Configs ==
    [dependencies : DepLists, onInit : BOOLEAN, onPing : BOOLEAN,
     isHealthy : BOOLEAN, onFailure : BOOLEAN, onShutdown : BOOLEAN]

\* defineLifecycle({})
NoConfig ==
    [dependencies |-> <<>>, onInit |-> FALSE, onPing |-> FALSE,
     isHealthy |-> FALSE, onFailure |-> FALSE, onShutdown |-> FALSE]

\* initialization and shutdown: the health callbacks play no part
Init ==
    \E c \in Configs, ls \in ListenerSetups :
        /\ ~c.onPing /\ ~c.isHealthy
        /\ Construct(c, ls)

-----------------------------------------------------------------------------
(* Actions *)

Alive == exitCode = Running

Frame == UNCHANGED <<config, listeners, returned, queries, requests, now>>

DirectShutdowns == {r \in DOMAIN shutdowns : shutdowns[r].via = 0}

\* the calls made so far by the embedding program, the operating system
\* and the callers of the health endpoint
Calls ==
    Len(inits) + Cardinality(DirectShutdowns) + Len(received) + Len(queries)
        + Cardinality({r \in DOMAIN requests : requests[r].query = 0})
        + Cardinality({k \in DOMAIN returned : returned[k].op = "emit"})

\* the embedding program calls init()
CallInit ==
    /\ Alive
    /\ Calls < MaxCalls
    /\ Apply(InitEnter(St))
    /\ Frame

OnInitSettles(i, outcome) ==
    /\ Alive
    /\ inits[i].pc = "awaitOnInit"
    /\ Apply(InitAfterOnInit(St, i, outcome))
    /\ Frame

OnFailureSettles(i, outcome) ==
    /\ Alive
    /\ inits[i].pc = "awaitOnFailure"
    /\ Apply(InitAfterOnFailure(St, i, outcome))
    /\ Frame

\* the embedding program calls shutdown()
CallShutdown ==
    /\ Alive
    /\ Calls < MaxCalls
    /\ Apply(ShutdownEnter(St, 0))
    /\ Frame

CloseSettles(r, outcome) ==
    /\ Alive
    /\ shutdowns[r].pc = "awaitClose"
    /\ Apply(ShutdownAfterClose(St, r, outcome))
    /\ Frame

OnShutdownSettles(r, outcome) ==
    /\ Alive
    /\ shutdowns[r].pc = "awaitOnShutdown"
    /\ Apply(ShutdownAfterOnShutdown(St, r, outcome))
    /\ Frame

\* the process receives SIGTERM or SIGINT while handlers are registered
ReceiveSignal(event) ==
    /\ Alive
    /\ Calls < MaxCalls
    /\ Len(handlers) > 0
    /\ Apply(ReceiveEvent(St, event))
    /\ Frame

\* a handler whose callback is shutdown() resumes once that run rejected
\* (a run that succeeds ends the process itself)
ShutdownHandlerResumes(h) ==
    /\ Alive
    /\ signals[h].pc = "awaitCb"
    /\ signals[h].cb = "shutdown"
    /\ shutdowns[signals[h].run].pc = "rejected"
    /\ Apply(HandlerResume(St, h, shutdowns[signals[h].run].err))
    /\ Frame

\* the embedding program calls setupShutdownHandlers itself, with its own
\* callback ("user") or with none
SetupUserHandlers(cb) ==
    /\ Alive
    /\ Len(handlers) < MaxUserSetups
    /\ Apply(SetupShutdownHandlers(St, cb))
    /\ Frame

\* a handler resumes once the user's callback settled
UserCbSettles(h, outcome) ==
    /\ Alive
    /\ signals[h].pc = "awaitCb"
    /\ signals[h].cb = "user"
    /\ Apply(HandlerResume(St, h, outcome))
    /\ Frame

\* the callback a segment of getHealthState() ended by invoking, if any
Awaited(q) ==
    IF q.pc = "awaitOnPing" THEN "onPing"
    ELSE IF q.pc = "awaitIsHealthy" THEN "isHealthy"
    ELSE None

\* mutant of QueryFrame: a query step marks the registry ready
QueryFrameMarksRegistry(k, q, clock, reqs) ==
    /\ requests' = Answer(reqs, k, q)
    /\ invoked' = IF Awaited(q) = None THEN invoked
                  ELSE [invoked EXCEPT ![Awaited(q)] = Append(@, None)]
    /\ now' = IF q.pc = "returned" THEN clock ELSE now
    /\ UNCHANGED <<config, listeners, healthCheckService,
                   servers, handlers, emitted, heard, returned, inits,
                   shutdowns, signals, received, exitCode>>
    /\ dependencyHealth' = [d \in DOMAIN dependencyHealth |-> TRUE]

\* Date.now() is read when the snapshot is built; time passes between two
\* reads and does not run backwards.  The settled query is handed to the
\* health check callback of the requests that wait for it.
QueryFrame(k, q, clock, reqs) ==
    /\ requests' = Answer(reqs, k, q)
    /\ invoked' = IF Awaited(q) = None THEN invoked
                  ELSE [invoked EXCEPT ![Awaited(q)] = Append(@, None)]
    /\ now' = IF q.pc = "returned" THEN clock ELSE now
    /\ UNCHANGED <<config, listeners, dependencyHealth, healthCheckService,
                   servers, handlers, emitted, heard, returned, inits,
                   shutdowns, signals, received, exitCode>>

\* a caller (the health endpoint, the embedding program) calls getHealthState()
CallGetHealthState ==
    /\ Alive
    /\ Calls < MaxCalls
    /\ \E clock \in now..MaxClock :
           LET q == QueryEnter(dependencyHealth, clock) IN
               /\ queries' = Append(queries, q)
               /\ QueryFrame(Len(queries) + 1, q, clock, requests)

OnPingResolves(k, customState) ==
    /\ Alive
    /\ queries[k].pc = "awaitOnPing"
    /\ \E clock \in now..MaxClock :
           LET q == QueryRead(Log(queries[k], "settle", "onPing", None),
                              customState, dependencyHealth, clock) IN
               /\ queries' = [queries EXCEPT ![k] = q]
               /\ QueryFrame(k, q, clock, requests)

OnPingRejects(k, error) ==
    /\ Alive
    /\ queries[k].pc = "awaitOnPing"
    /\ LET q == QueryReject(Log(queries[k], "settle", "onPing", error), error) IN
           /\ queries' = [queries EXCEPT ![k] = q]
           /\ QueryFrame(k, q, now, requests)

IsHealthyResolves(k, healthy) ==
    /\ Alive
    /\ queries[k].pc = "awaitIsHealthy"
    /\ \E clock \in now..MaxClock :
           LET q == QueryReturn(Log(queries[k], "settle", "isHealthy", None),
                                healthy, clock) IN
               /\ queries' = [queries EXCEPT ![k] = q]
               /\ QueryFrame(k, q, clock, requests)

IsHealthyRejects(k, error) ==
    /\ Alive
    /\ queries[k].pc = "awaitIsHealthy"
    /\ LET q == QueryReject(Log(queries[k], "settle", "isHealthy", error), error) IN
           /\ queries' = [queries EXCEPT ![k] = q]
           /\ QueryFrame(k, q, now, requests)

\* a health server that was started and not asked to close
Listening == \E sv \in DOMAIN servers : servers[sv] = 0

\* a client sends a request to the health server
HealthRequest(req) ==
    /\ Alive
    /\ Calls < MaxCalls
    /\ Listening
    /\ IF Routed(req)
       THEN \E clock \in now..MaxClock :
                LET k == Len(queries) + 1
                    q == QueryEnter(dependencyHealth, clock)
                IN  /\ queries' = Append(queries, q)
                    /\ QueryFrame(k, q, clock, Append(requests,
                                              Received(req, k, requests)))
       ELSE /\ requests' = Append(requests, [Received(req, 0, requests) EXCEPT
                                                 !.responses = <<NotFound>>])
            /\ UNCHANGED <<config, listeners, dependencyHealth,
                           healthCheckService, servers, handlers, emitted,
                           invoked, heard, returned, inits, shutdowns,
                           signals, queries, received, exitCode, now>>

\* the listeners a program registers, T being one that throws, and the
\* names it registers them for and emits itself
Listeners == {"A", "B", "T"}
ProgramEvents == {"ready", "error"}
EmitArgs == {"arg1"}

\* mutant of EmitReturns: emit() returns true also when nobody listens
EmitReturnsAlwaysTrue(name) ==
    IF Throws(name) \/ (listeners[name] = <<>> /\ name = "error") THEN "throws"
    ELSE "true"

\* what emitter.emit(name, ...) does for its caller: it throws what a
\* listener throws, and throws for 'error' when nobody listens to it;
\* otherwise it returns whether there was a listener
EmitReturns(name) ==
    IF Throws(name) THEN "throws"
    ELSE IF listeners[name] = <<>>
    THEN IF name = "error" THEN "throws" ELSE "false"
    ELSE "true"

\* instance.on(name, listener): emitter.on(name, listener); return instance
On(name, listener) ==
    /\ Alive
    /\ Cardinality({k \in DOMAIN returned : returned[k].op = "on"})
           < MaxListeners
    /\ listeners' = [listeners EXCEPT ![name] = Append(@, listener)]
    /\ returned' = Append(returned, [op |-> "on", name |-> name,
                                     arg |-> listener, result |-> "instance",
                                     emission |-> 0,
                                     registered |-> Len(listeners[name])])
    /\ UNCHANGED <<config, dependencyHealth, healthCheckService, servers,
                   handlers, emitted, invoked, heard, inits, shutdowns,
                   signals, queries, requests, received, exitCode, now>>

\* instance.emit(name, ...args): return emitter.emit(name, ...args)
PublicEmit(name, args) ==
    /\ Alive
    /\ Calls < MaxCalls
    /\ Apply(Emit(St, name, args, "emit"))
    /\ returned' = Append(returned, [op |-> "emit", name |-> name,
                                     arg |-> args, result |-> EmitReturns(name),
                                     emission |-> Len(emitted[name]) + 1,
                                     registered |-> Len(listeners[name])])
    /\ UNCHANGED <<config, listeners, queries, requests, now>>

-----------------------------------------------------------------------------
(* Reading the logs of the invocations *)

\* the positions in a log of the steps (op, name)
Steps(log, op, name) ==
    {k \in DOMAIN log : log[k].op = op /\ log[k].name = name}

\* the positions of the steps (op, name) that carry arg
StepsWith(log, op, name, arg) ==
    {k \in Steps(log, op, name) : log[k].arg = arg}

\* every step (op1, name1) of the log comes before every step (op2, name2)
Before(log, op1, name1, op2, name2) ==
    \A a \in Steps(log, op1, name1), b \in Steps(log, op2, name2) : a < b

Settled(pc) == pc \in {"resolved", "rejected", "exited"}

-----------------------------------------------------------------------------
(* Initialization and shutdown of one lifecycle *)

Next ==
    \/ CallInit
    \/ \E i \in DOMAIN inits, outcome \in {None} \cup InitErrors :
           OnInitSettles(i, outcome)
    \/ \E i \in DOMAIN inits, outcome \in {None} \cup FailureErrors :
           OnFailureSettles(i, outcome)
    \/ CallShutdown
    \/ \E r \in DOMAIN shutdowns, outcome \in {None} \cup CloseErrors :
           CloseSettles(r, outcome)
    \/ \E r \in DOMAIN shutdowns, outcome \in {None} \cup ShutdownErrors :
           OnShutdownSettles(r, outcome)
    \/ \E event \in NodeSignals : ReceiveSignal(event)
    \/ \E h \in DOMAIN signals : ShutdownHandlerResumes(h)

Spec == Init /\ [][Next]_vars

-----------------------------------------------------------------------------
(* Health queries while one lifecycle initializes *)

InitHealth ==
    \E c \in Configs :
        /\ ~c.onFailure /\ ~c.onShutdown
        /\ Construct(c, NoListeners)

NextHealth ==
    \/ CallInit
    \/ \E i \in DOMAIN inits, outcome \in {None} \cup InitErrors :
           OnInitSettles(i, outcome)
    \/ CallGetHealthState
    \/ \E k \in DOMAIN queries, customState \in PingResults :
           OnPingResolves(k, customState)
    \/ \E k \in DOMAIN queries, error \in PingErrors : OnPingRejects(k, error)
    \/ \E k \in DOMAIN queries, healthy \in BOOLEAN :
           IsHealthyResolves(k, healthy)
    \/ \E k \in DOMAIN queries, error \in HealthyErrors :
           IsHealthyRejects(k, error)

SpecHealth == InitHealth /\ [][NextHealth]_vars

-----------------------------------------------------------------------------
(* The health endpoint of one lifecycle *)

InitEndpoint ==
    \E c \in Configs :
        /\ ~c.onInit /\ ~c.onFailure /\ ~c.onShutdown
        /\ Construct(c, NoListeners)

NextEndpoint ==
    \/ CallInit
    \/ \E req \in HttpRequests : HealthRequest(req)
    \/ \E k \in DOMAIN queries, customState \in EndpointPingResults :
           OnPingResolves(k, customState)
    \/ \E k \in DOMAIN queries, error \in PingErrors : OnPingRejects(k, error)
    \/ \E k \in DOMAIN queries, healthy \in BOOLEAN :
           IsHealthyResolves(k, healthy)
    \/ \E k \in DOMAIN queries, error \in HealthyErrors :
           IsHealthyRejects(k, error)

SpecEndpoint == InitEndpoint /\ [][NextEndpoint]_vars

-----------------------------------------------------------------------------
(* The dependency registry, for every list of names a program may declare *)

\* every list of at most MaxDeps names, repetitions included
DeclaredLists ==
    UNION {[1..n -> {DepNames[k] : k \in 1..MaxDeps}] : n \in 0..MaxDeps}

InitDeclare ==
    \E names \in DeclaredLists, onInit \in BOOLEAN :
        Construct([NoConfig EXCEPT !.dependencies = names, !.onInit = onInit],
                  NoListeners)

NextDeclare ==
    \/ CallInit
    \/ \E i \in DOMAIN inits, outcome \in {None} \cup InitErrors :
           OnInitSettles(i, outcome)
    \/ CallGetHealthState

SpecDeclare == InitDeclare /\ [][NextDeclare]_vars

-----------------------------------------------------------------------------
(* Listeners and events of one lifecycle *)

InitEvents ==
    \E onInit \in BOOLEAN :
        Construct([NoConfig EXCEPT !.dependencies = Distinct(MaxDeps),
                                   !.onInit = onInit],
                  NoListeners)

NextEvents ==
    \/ \E name \in ProgramEvents, listener \in Listeners : On(name, listener)
    \/ \E name \in ProgramEvents, args \in EmitArgs : PublicEmit(name, args)
    \/ CallInit
    \/ \E i \in DOMAIN inits, outcome \in {None} \cup InitErrors :
           OnInitSettles(i, outcome)

SpecEvents == InitEvents /\ [][NextEvents]_vars

-----------------------------------------------------------------------------
(* The steps of init() and shutdown() with listeners on `init` and `done` *)

\* the listeners registered for one name before init(): none, one, one
\* that throws, or two
ListenerLists == {<<>>, <<"A">>, <<"T">>, <<"A", "B">>}

InitOrder ==
    \E onInit \in BOOLEAN, onShutdown \in BOOLEAN,
       onInitEvent \in ListenerLists, onDoneEvent \in ListenerLists :
        Construct([NoConfig EXCEPT !.dependencies = Distinct(MaxDeps),
                                   !.onInit = onInit,
                                   !.onShutdown = onShutdown],
                  [NoListeners EXCEPT !["init"] = onInitEvent,
                                      !["done"] = onDoneEvent])

NextOrder ==
    \/ CallInit
    \/ \E i \in DOMAIN inits, outcome \in {None} \cup InitErrors :
           OnInitSettles(i, outcome)
    \/ CallShutdown
    \/ \E r \in DOMAIN shutdowns, outcome \in {None} \cup CloseErrors :
           CloseSettles(r, outcome)
    \/ \E r \in DOMAIN shutdowns, outcome \in {None} \cup ShutdownErrors :
           OnShutdownSettles(r, outcome)

SpecOrder == InitOrder /\ [][NextOrder]_vars

-----------------------------------------------------------------------------
(* setupShutdownHandlers used on its own *)

InitHandlers == Construct(NoConfig, NoListeners)

NextHandlers ==
    \/ \E cb \in {"user", "none"} : SetupUserHandlers(cb)
    \/ \E event \in NodeSignals : ReceiveSignal(event)
    \/ \E h \in DOMAIN signals, outcome \in {None} \cup UserCbErrors :
           UserCbSettles(h, outcome)

SpecHandlers == InitHandlers /\ [][NextHandlers]_vars

-----------------------------------------------------------------------------
(* Claims about shutdown() *)

\* C1: in every shutdown() run that found a started health server, close() is
\* invoked once, and onShutdown is invoked only after that close() has
\* settled: within the run, close() and onShutdown are never both pending.
C1_CloseSettlesBeforeOnShutdown ==
    \A r \in DOMAIN shutdowns :
        LET run == shutdowns[r] IN
        run.handle # NoService =>
            /\ Cardinality(Steps(run.log, "call", "close")) = 1
            /\ run.server = run.handle
            /\ Steps(run.log, "call", "onShutdown") # {} =>
                   /\ StepsWith(run.log, "settle", "close", None) # {}
                   /\ Before(run.log, "settle", "close", "call", "onShutdown")
            /\ run.pc = "awaitClose" => Steps(run.log, "call", "onShutdown") = {}

\* C1 witness: a run closed a started server, then invoked onShutdown
C1_Witness ==
    \E r \in DOMAIN shutdowns :
        /\ shutdowns[r].handle # NoService
        /\ shutdowns[r].pc = "awaitOnShutdown"
        /\ StepsWith(shutdowns[r].log, "settle", "close", None) # {}

C3_DirectShutdownCatchesErrors ==
    \A r \in DOMAIN shutdowns :
        LET run == shutdowns[r]
            failed == {k \in Steps(run.log, "settle", "close") \cup
                                Steps(run.log, "settle", "onShutdown") :
                           run.log[k].arg # None}
        IN  run.phase \in {"Ready", "Failed"} /\ run.via = 0 /\ failed # {} =>
                /\ run.pc # "rejected"
                /\ exitCode = 0

\* C4 as claimed: once shutdown() was invoked (from Ready or Failed), further
\* invocations change nothing: onShutdown is invoked at most once and
\* no health server is closed twice.
C4_OneShutdownSequence ==
    shutdowns # <<>> /\ shutdowns[1].phase \in {"Ready", "Failed"} =>
        /\ Len(invoked["onShutdown"]) <= 1
        /\ \A sv \in DOMAIN servers : servers[sv] <= 1

-----------------------------------------------------------------------------
(* Claims about init() *)

\* the init() invocations whose onInit rejected
FailedInits == {i \in DOMAIN inits : inits[i].onInitErr # None}

\* C5 as claimed: when onInit rejected with E, init() emitted `failure` once
\* with E and no `ready`, invoked onFailure (if configured) once with E, and
\* once it settled it had rejected with E.
C5_InitRejectsWithOnInitError ==
    \A i \in FailedInits :
        LET call == inits[i]
            E == call.onInitErr
        IN  /\ Cardinality(Steps(call.log, "emit", "failure")) = 1
            /\ StepsWith(call.log, "emit", "failure", E) # {}
            /\ Steps(call.log, "emit", "ready") = {}
            /\ config.onFailure =>
                   /\ Cardinality(Steps(call.log, "call", "onFailure")) = 1
                   /\ StepsWith(call.log, "call", "onFailure", E) # {}
            /\ call.pc # "resolved"
            /\ call.pc = "rejected" => call.err = E

\* C5 amended: when onInit rejects with E, init() emits `failure` exactly once
\* with E and no `ready`. If a `failure` listener throws, init() rejects with
\* that exception and onFailure is not invoked. Otherwise onFailure (if
\* configured) is invoked exactly once with E, and init() rejects with E when
\* onFailure is absent or resolves, with onFailure's own error when it rejects.
C5_InitFailurePath ==
    \A i \in FailedInits :
        LET call == inits[i]
            E == call.onInitErr
            failureCalls == Steps(call.log, "call", "onFailure")
            failureSettles == Steps(call.log, "settle", "onFailure")
        IN  /\ Cardinality(Steps(call.log, "emit", "failure")) = 1
            /\ StepsWith(call.log, "emit", "failure", E) # {}
            /\ Before(call.log, "settle", "onInit", "emit", "failure")
            /\ Steps(call.log, "emit", "ready") = {}
            /\ call.pc \in {"awaitOnFailure", "rejected"}
            /\ IF Throws("failure")
               THEN /\ failureCalls = {}
                    /\ call.pc = "rejected" /\ call.err = ListenerError
               ELSE IF config.onFailure
               THEN /\ Cardinality(failureCalls) = 1
                    /\ StepsWith(call.log, "call", "onFailure", E) # {}
                    /\ Before(call.log, "emit", "failure", "call", "onFailure")
                    /\ call.pc = "awaitOnFailure" <=> failureSettles = {}
                    /\ \A k \in failureSettles :
                           call.err = IF call.log[k].arg = None THEN E
                                      ELSE call.log[k].arg
               ELSE /\ failureCalls = {}
                    /\ call.pc = "rejected" /\ call.err = E

\* C5 witness: onInit rejected, onFailure was invoked and resolved, and
\* init() rejected with onInit's error
C5_Witness ==
    \E i \in FailedInits :
        /\ config.onFailure
        /\ inits[i].pc = "rejected"
        /\ inits[i].err = inits[i].onInitErr
        /\ StepsWith(inits[i].log, "settle", "onFailure", None) # {}

\* C7 as claimed: an init() invoked when the controller is not in Created
\* fails with LifecycleStateError and emits nothing, invokes no onInit,
\* starts no health server and registers no signal handlers.
C7_InitOnlyFromCreated ==
    \A i \in DOMAIN inits :
        inits[i].phase # "Created" =>
            /\ inits[i].pc = "rejected"
            /\ inits[i].err = "LifecycleStateError"
            /\ \A k \in DOMAIN inits[i].log : inits[i].log[k].op = "reject"

\* C8 as claimed: a shutdown() invoked in Created or Initializing is
\* rejected: no onShutdown, no `done`, no process exit.
C8_ShutdownNotBeforeInit ==
    \A r \in DOMAIN shutdowns :
        shutdowns[r].phase \in {"Created", "Initializing"} =>
            /\ shutdowns[r].pc = "rejected"
            /\ \A k \in DOMAIN shutdowns[r].log :
                   shutdowns[r].log[k].op = "reject"

-----------------------------------------------------------------------------
(* Claims about setupShutdownHandlers *)

SymbolOf(event) == IF event = "SIGTERM" THEN Sigterm ELSE Sigint

\* the handler invocations that have a callback to call
CallingHandlers == {h \in DOMAIN signals : signals[h].cb # "none"}

-----------------------------------------------------------------------------
(* Claims about getHealthState() *)

InitSucceeded == \E i \in DOMAIN inits : inits[i].pc = "resolved"

Returned == {k \in DOMAIN queries : queries[k].pc = "returned"}

\* the mapping of every name of the list to true
AllTrue(names) == [d \in {names[k] : k \in DOMAIN names} |-> TRUE]

\* C9 as claimed, for the queries that read the registry after init() marked
\* it ready: with a duplicate-free, non-empty list D of dependencies, the
\* snapshot returned has `dependencies` equal to the mapping of every name of
\* D to true.
C9_DependenciesTrueAfterInit ==
    \A k \in Returned :
        /\ InitSucceeded
        /\ NoDuplicates(config.dependencies)
        /\ config.dependencies # <<>>
        /\ queries[k].deps = AllTrue(config.dependencies)
        => queries[k].result["dependencies"] = Obj(AllTrue(config.dependencies))

\* C10 as claimed: when no dependency is declared, every snapshot returned
\* has `dependencies` absent (undefined), never a mapping.
C10_NoDependenciesFieldAbsent ==
    \A k \in Returned :
        config.dependencies = <<>> =>
            queries[k].result["dependencies"].t = "undefined"

\* the dependency flags a snapshot reports (none when the field is absent)
Reported(snapshot) ==
    IF snapshot["dependencies"].t = "object" THEN snapshot["dependencies"].v
    ELSE EmptyObject

\* the `dependencies` field computed from the registry as the query read it
ComputedDependencies(q) ==
    IF DOMAIN q.deps # {} THEN Obj(q.deps) ELSE Undefined

\* C11 as claimed: with isHealthy configured, the `healthy` field of every
\* snapshot returned equals the value isHealthy returned for that query,
\* whatever the dependency flags are.
C11_HealthyIsIsHealthyResult ==
    \A k \in Returned :
        config.isHealthy =>
            /\ StepsWith(queries[k].log, "settle", "isHealthy", None) # {}
            /\ queries[k].result["healthy"] = queries[k].healthy

\* C12 as claimed: with no isHealthy configured, every snapshot returned has
\* `healthy` equal to the conjunction of the dependency flags that the same
\* snapshot reports (true when it reports none), in every interleaving of
\* the queries with init().
C12_HealthyIsConjunctionOfReported ==
    \A k \in Returned :
        ~config.isHealthy =>
            LET flags == Reported(queries[k].result) IN
            /\ queries[k].result["healthy"].t = "boolean"
            /\ queries[k].result["healthy"].v = (\A d \in DOMAIN flags : flags[d])

\* C13 as claimed: in every snapshot a query returns, `healthy`, `timestamp`
\* and `dependencies` carry the values getHealthState() computed (the health
\* decision, the clock read when the snapshot was built, the registry as
\* read), also when the result of onPing has these keys.
C13_ReservedKeysCarryComputedValues ==
    [][\A k \in DOMAIN queries :
           queries[k].pc # "returned" /\ queries'[k].pc = "returned" =>
               /\ queries'[k].result["healthy"] = queries'[k].healthy
               /\ queries'[k].result["timestamp"] = Num(now')
               /\ queries'[k].result["dependencies"].t
                      = ComputedDependencies(queries'[k]).t
               /\ Reported(queries'[k].result) = queries'[k].deps]_vars

\* C14: every pair that onPing returned under a non-reserved key is in the
\* snapshot of that query unchanged, the snapshot always has the keys
\* healthy and timestamp, and it has no other key than these, dependencies
\* and the keys of onPing's result (none when onPing is not configured).
C14_CustomFieldsCarriedOver ==
    \A k \in Returned :
        LET q == queries[k] IN
        /\ \A key \in DOMAIN q.customState \ ReservedKeys :
               /\ key \in DOMAIN q.result
               /\ q.result[key] = q.customState[key]
        /\ {"healthy", "timestamp"} \subseteq DOMAIN q.result
        /\ DOMAIN q.result \subseteq ReservedKeys \cup DOMAIN q.customState
        /\ ~config.onPing =>
               /\ q.customState = EmptyObject
               /\ DOMAIN q.result \subseteq ReservedKeys
        /\ config.onPing => StepsWith(q.log, "settle", "onPing", None) # {}

\* C14 witness: onPing returned {count: 7} and the snapshot has count: 7
\* next to healthy and timestamp
C14_Witness ==
    \E k \in Returned :
        /\ config.onPing
        /\ queries[k].customState = [count |-> Num(7)]
        /\ DOMAIN queries[k].result =
               {"healthy", "timestamp", "dependencies", "count"}
        /\ queries[k].result["count"] = Num(7)

\* the steps of a query's log at which onPing or isHealthy failed
FailedCallbacks(log) ==
    {j \in Steps(log, "settle", "onPing") \cup Steps(log, "settle", "isHealthy") :
         log[j].arg # None}

-----------------------------------------------------------------------------
(* Claims about the health endpoint *)

\* the requests handed to the lifecycle's callback
Served == {r \in DOMAIN requests : requests[r].query # 0}

\* C16 as claimed: every /health request whose getHealthState() returned a
\* snapshot has exactly one response, with status 200 if the snapshot has
\* healthy = true and 503 otherwise, and the snapshot as JSON body.
C16_StatusFollowsHealthy ==
    \A r \in Served :
        LET q == queries[requests[r].query] IN
        q.pc = "returned" =>
            /\ Len(requests[r].responses) = 1
            /\ requests[r].responses[1].status =
                   IF Truthy(q.result["healthy"]) THEN 200 ELSE 503
            /\ DOMAIN requests[r].responses[1].body =
                   {key \in DOMAIN q.result : q.result[key].t # "undefined"}

\* C16 amended: a /health request has no response while its getHealthState()
\* is pending and exactly one once it settled. When a snapshot was returned
\* and JSON.stringify can encode it, the status is 200 if the snapshot's
\* healthy is true and 503 otherwise, and the body is the snapshot's JSON
\* (keys with undefined values left out); when JSON.stringify throws on the
\* snapshot, the one response is 503 with the error body.
C16_OneResponsePerRequest ==
    \A r \in Served :
        LET q == queries[requests[r].query]
            res == requests[r].responses
        IN  /\ q.pc \notin {"returned", "rejected"} => res = <<>>
            /\ q.pc \in {"returned", "rejected"} => Len(res) = 1
            /\ q.pc = "returned" /\ Serializable(q.result) =>
                   /\ res[1].status = IF Truthy(q.result["healthy"]) THEN 200
                                      ELSE 503
                   /\ DOMAIN res[1].body =
                          {key \in DOMAIN q.result : q.result[key].t # "undefined"}
                   /\ \A key \in DOMAIN res[1].body :
                          res[1].body[key] = q.result[key]
                   /\ requests[r].logged = 0
            /\ q.pc = "returned" /\ ~Serializable(q.result) =>
                   /\ res[1].status = 503
                   /\ DOMAIN res[1].body = {"healthy", "error"}
                   /\ requests[r].logged = 1

\* C16 witness: a snapshot with healthy = false was answered with 503 and
\* the snapshot as body
C16_Witness ==
    \E r \in Served :
        /\ queries[requests[r].query].pc = "returned"
        /\ queries[requests[r].query].healthy = Bool(FALSE)
        /\ Len(requests[r].responses) = 1
        /\ requests[r].responses[1].status = 503
        /\ "timestamp" \in DOMAIN requests[r].responses[1].body

\* the requests whose getHealthState() failed
FailedRequests == {r \in Served : queries[requests[r].query].pc = "rejected"}

\* C17: a /health request whose getHealthState() failed is answered once,
\* with 503 and the error body, and the failure is logged, not thrown on;
\* every request, also one received after such a failure, is answered once
\* its getHealthState() settled; and the step that answers a failed request
\* changes nothing of the lifecycle: registry, server handle, servers,
\* signal handlers, events, init() and shutdown() runs, exit code.
C17_FailedQueryAnsweredWith503 ==
    /\ [](\A r \in FailedRequests :
              /\ Len(requests[r].responses) = 1
              /\ requests[r].responses[1].status = 503
              /\ DOMAIN requests[r].responses[1].body = {"healthy", "error"}
              /\ requests[r].responses[1].body["healthy"] = Bool(FALSE)
              /\ requests[r].logged = 1)
    /\ [](\A r \in Served :
              /\ requests[r].failedBefore > 0
              /\ queries[requests[r].query].pc \in {"returned", "rejected"}
              => Len(requests[r].responses) = 1)
    /\ [][(\E r \in DOMAIN requests :
               r \in DOMAIN requests' /\ requests[r].logged < requests'[r].logged)
          => /\ UNCHANGED <<dependencyHealth, healthCheckService, servers,
                            handlers, emitted, inits, shutdowns, signals,
                            received, exitCode, config, listeners>>
             /\ Listening']_vars

\* C17 witness: a request failed with onPing's error and got 503, and a
\* request received after that was answered with 200
C17_Witness ==
    \E r1, r2 \in Served :
        /\ r1 \in FailedRequests
        /\ requests[r1].responses[1].status = 503
        /\ requests[r2].failedBefore > 0
        /\ Len(requests[r2].responses) = 1
        /\ requests[r2].responses[1].status = 200

-----------------------------------------------------------------------------
(* Claims about construction and the registry *)

\* C18 as claimed: defineLifecycle with a list that names a dependency twice
\* fails, so no lifecycle built from such a list ever runs init() or answers
\* a health query from a registry with fewer entries than the list.
C18_DuplicateNamesRejected ==
    ~NoDuplicates(config.dependencies) =>
        /\ \A i \in DOMAIN inits : inits[i].pc # "resolved"
        /\ Returned = {}

\* C19: an init() that resolved emitted `init` exactly once, first of all,
\* then invoked onInit (if configured) exactly once and saw it resolve, then
\* emitted `ready` exactly once; it emitted no `failure` and invoked no
\* onFailure. When it is the only init() so far, these are all the `init`,
\* `ready` and `failure` events and onInit and onFailure invocations there are.
C19_SuccessfulInitEmitsInitAndReadyOnce ==
    /\ \A i \in DOMAIN inits :
           LET log == inits[i].log IN
           inits[i].pc = "resolved" =>
               /\ Cardinality(Steps(log, "emit", "init")) = 1
               /\ log[1] = [op |-> "emit", name |-> "init", arg |-> None]
               /\ Cardinality(Steps(log, "call", "onInit")) =
                      IF config.onInit THEN 1 ELSE 0
               /\ Cardinality(StepsWith(log, "settle", "onInit", None)) =
                      IF config.onInit THEN 1 ELSE 0
               /\ Cardinality(Steps(log, "emit", "ready")) = 1
               /\ Before(log, "emit", "init", "call", "onInit")
               /\ Before(log, "settle", "onInit", "emit", "ready")
               /\ Steps(log, "emit", "failure") = {}
               /\ Steps(log, "call", "onFailure") = {}
    /\ Len(inits) = 1 /\ inits[1].pc = "resolved" =>
           /\ emitted["init"] = <<None>>
           /\ emitted["ready"] = <<None>>
           /\ emitted["failure"] = <<>>
           /\ Len(invoked["onInit"]) = IF config.onInit THEN 1 ELSE 0
           /\ invoked["onFailure"] = <<>>

\* C19 witness: an init() with onInit and onFailure configured resolved
C19_Witness ==
    /\ config.onInit /\ config.onFailure
    /\ Len(inits) = 1
    /\ inits[1].pc = "resolved"
    /\ emitted["ready"] = <<None>>

\* no init() has gone past its onInit: the lifecycle is Created or
\* Initializing
BeforeReady == \A i \in DOMAIN inits : inits[i].pc = "awaitOnInit"

\* the mapping of every name of the list to false
AllFalse(names) == [d \in {names[k] : k \in DOMAIN names} |-> FALSE]

\* C20 as claimed, for a lifecycle that declares a dependency: with no
\* isHealthy configured, every snapshot returned before Ready has
\* healthy = false and reports every declared dependency as false.
C20_UnhealthyBeforeReady ==
    BeforeReady /\ ~config.isHealthy /\ config.dependencies # <<>> =>
        \A k \in Returned :
            /\ queries[k].result["healthy"] = Bool(FALSE)
            /\ Reported(queries[k].result) = AllFalse(config.dependencies)

-----------------------------------------------------------------------------
(* Claims about listeners and events *)

\* the invocations of `ready` listeners that an init() caused
ReadyHearings ==
    {a \in DOMAIN heard : heard[a].event = "ready" /\ heard[a].by = "init"}

\* C21: an init() emits `ready` only after its onInit (if configured) has
\* resolved, and whenever a listener of the `ready` that init() emits runs,
\* every declared dependency is flagged true, a health server has been
\* started and its handle is stored, and the signal handlers are registered
\* with shutdown as callback.
C21_ReadyListenerSeesInitializedService ==
    /\ \A i \in DOMAIN inits :
           LET log == inits[i].log IN
           config.onInit /\ Steps(log, "emit", "ready") # {} =>
               /\ StepsWith(log, "settle", "onInit", None) # {}
               /\ Before(log, "settle", "onInit", "emit", "ready")
    /\ \A a \in ReadyHearings :
           LET h == heard[a] IN
           /\ h.registry = AllTrue(config.dependencies)
           /\ h.handle # NoService
           /\ h.handle \in DOMAIN servers
           /\ h.handlers # <<>>
           /\ h.handlers[Len(h.handlers)] = "shutdown"

\* C21 witness: onInit is configured, dependencies are declared, and a
\* `ready` listener registered by the program ran during init()
C21_Witness ==
    \E a \in ReadyHearings :
        /\ config.onInit
        /\ config.dependencies # <<>>
        /\ heard[a].listener = "A"
        /\ heard[a].registry = AllTrue(config.dependencies)
        /\ InitSucceeded

\* two listener invocations that belong to the same emit() call
SameEmission(g, h) == g.event = h.event /\ g.emission = h.emission

\* C23 as claimed: every emit() invokes all the listeners registered for the
\* name at that moment, one after the other in registration order.
C23_AllListenersInRegistrationOrder ==
    \A a \in DOMAIN heard :
        LET h == heard[a] IN
        /\ h.listener = listeners[h.event][h.position]
        /\ h.position > 1 =>
               a > 1 /\ SameEmission(heard[a - 1], h)
                     /\ heard[a - 1].position = h.position - 1
        /\ h.position < h.registered =>
               a < Len(heard) /\ SameEmission(heard[a + 1], h)
                              /\ heard[a + 1].position = h.position + 1

\* C23 amended: emit() invokes the listeners registered for the name at that
\* moment synchronously, one after the other in registration order, up to
\* and including the first one that throws: the listeners registered after
\* a throwing one are not invoked. Each is invoked once per emit(), with
\* the emitted payload, and listeners of other names are not invoked.
C23_ListenersInOrderUntilOneThrows ==
    \A a \in DOMAIN heard :
        LET h == heard[a] IN
        /\ h.position \in 1..h.registered
        /\ h.registered <= Len(listeners[h.event])
        /\ h.listener = listeners[h.event][h.position]
        /\ h.emission \in DOMAIN emitted[h.event]
        /\ h.arg = emitted[h.event][h.emission]
        /\ \A b \in DOMAIN heard :
               SameEmission(heard[b], h) /\ heard[b].position = h.position
                   => b = a
        /\ h.position > 1 =>
               a > 1 /\ SameEmission(heard[a - 1], h)
                     /\ heard[a - 1].position = h.position - 1
                     /\ heard[a - 1].listener # "T"
        /\ h.position < h.registered =>
               IF h.listener = "T"
               THEN \A b \in DOMAIN heard :
                        SameEmission(heard[b], h) => heard[b].position <= h.position
               ELSE a < Len(heard) /\ SameEmission(heard[a + 1], h)
                                   /\ heard[a + 1].position = h.position + 1

\* C23 witness: A and then B were registered for `ready`, init() resolved,
\* and A ran right before B
C23_Witness ==
    \E a \in ReadyHearings :
        /\ a < Len(heard)
        /\ heard[a].listener = "A" /\ heard[a].position = 1
        /\ heard[a + 1].listener = "B" /\ heard[a + 1].position = 2
        /\ SameEmission(heard[a], heard[a + 1])
        /\ InitSucceeded

\* the calls of emit() and of on() the program made
EmitCalls == {k \in DOMAIN returned : returned[k].op = "emit"}
OnCalls == {k \in DOMAIN returned : returned[k].op = "on"}

\* the listener invocations of one emit() call
HearingsOf(call) ==
    {a \in DOMAIN heard : heard[a].by = "emit" /\ heard[a].event = call.name
                              /\ heard[a].emission = call.emission}

\* C24 as claimed: emit(name, args) returns true when a listener is
\* registered for the name at that moment and false when none is, and every
\* such listener is invoked with args; on() returns the instance.
C24_EmitReturnsWhetherListenersExist ==
    /\ \A k \in EmitCalls :
           LET call == returned[k] IN
           /\ call.result = IF call.registered > 0 THEN "true" ELSE "false"
           /\ Cardinality(HearingsOf(call)) = call.registered
           /\ \A a \in HearingsOf(call) : heard[a].arg = call.arg
    /\ \A k \in OnCalls : returned[k].result = "instance"

\* the listeners registered for the name when the call was made
RegisteredAt(call) == SubSeq(listeners[call.name], 1, call.registered)

\* C24 amended: emit(name, args) invokes the listeners registered for name
\* at that moment, up to the first that throws, each with args unchanged.
\* It throws when one of them throws, and when name is 'error' and no
\* listener is registered; otherwise it returns true if at least one
\* listener is registered for name and false if none is. on(name, listener)
\* adds the listener after those already registered for name and returns
\* the instance it was called on.
C24_EmitReturnsOrThrows ==
    /\ \A k \in EmitCalls :
           LET call == returned[k]
               thrower == \E j \in 1..call.registered :
                              listeners[call.name][j] = "T"
           IN  /\ call.result =
                      IF thrower THEN "throws"
                      ELSE IF call.registered > 0 THEN "true"
                      ELSE IF call.name = "error" THEN "throws"
                      ELSE "false"
               /\ Cardinality(HearingsOf(call)) = Len(Run(RegisteredAt(call)))
               /\ \A a \in HearingsOf(call) :
                      /\ heard[a].arg = call.arg
                      /\ heard[a].listener = RegisteredAt(call)[heard[a].position]
    /\ \A k \in OnCalls :
           /\ returned[k].result = "instance"
           /\ listeners[returned[k].name][returned[k].registered + 1]
                  = returned[k].arg

\* C24 witness: emit() returned false for a name without listeners, and
\* later true for the same name, its listener having been given the args
C24_Witness ==
    \E j, k \in EmitCalls :
        /\ j < k
        /\ returned[j].name = returned[k].name
        /\ returned[j].result = "false"
        /\ returned[k].result = "true"
        /\ \E a \in HearingsOf(returned[k]) : heard[a].arg = returned[k].arg

-----------------------------------------------------------------------------
(* Claims about repeated and concurrent health queries *)

\* two queries that read the same registry and got the same results from
\* onPing and isHealthy
SameInputs(p, q) ==
    /\ p.deps = q.deps
    /\ DOMAIN p.customState = DOMAIN q.customState
    /\ p.customState = q.customState
    /\ p.healthy = q.healthy

\* the queries that return a snapshot in this step
Returning ==
    {k \in DOMAIN queries' :
         /\ queries'[k].pc = "returned"
         /\ k \in DOMAIN queries => queries[k].pc # "returned"}

C30_QueryLeavesLifecycleUnchanged ==
    [][queries' # queries =>
           /\ UNCHANGED <<dependencyHealth, healthCheckService, listeners,
                          servers, handlers, emitted, heard, inits, shutdowns,
                          signals, received, exitCode, config>>
           /\ Phase(St)' = Phase(St)]_vars

\* C30 witness: while init() waits for onInit, two queries are over, one
\* with a snapshot and one with a failure, and the registry is as built
C30_Witness ==
    /\ Phase(St) = "Initializing"
    /\ \E j, k \in DOMAIN queries :
           queries[j].pc = "returned" /\ queries[k].pc = "rejected"
    /\ config.dependencies # <<>>
    /\ dependencyHealth = AllFalse(config.dependencies)
    /\ healthCheckService = NoService

-----------------------------------------------------------------------------
(* Claims about the order of the steps of init() and shutdown() *)

\* the init() runs that emitted `failure`
FailurePaths ==
    {i \in DOMAIN inits : Steps(inits[i].log, "emit", "failure") # {}}

\* C25 as claimed, for a lifecycle on which init() was called once: when
\* init() has emitted `failure`, every declared dependency is flagged false,
\* then and afterwards.
C25_RegistryFalseOnFailurePath ==
    Len(inits) = 1 /\ FailurePaths # {} =>
        dependencyHealth = AllFalse(config.dependencies)

\* a log as the sequence of its steps
Trace(log) == [k \in DOMAIN log |-> <<log[k].op, log[k].name>>]

\* the steps of a successful init()
SuccessfulInit ==
    <<<<"emit", "init">>>>
    \o (IF config.onInit
        THEN <<<<"call", "onInit">>, <<"settle", "onInit">>>>
        ELSE <<>>)
    \o <<<<"mark", "dependencies">>, <<"start", "healthCheckServer">>,
         <<"register", "signalHandlers">>, <<"emit", "ready">>,
         <<"resolve", "init">>>>

\* the invocations of `init` listeners
InitHearings == {a \in DOMAIN heard : heard[a].event = "init"}

\* C26: an init() that resolved took exactly these steps, one after the
\* other: emit `init`, call onInit and see it resolve (if configured), mark
\* every dependency, start the health server, register the signal handlers,
\* emit `ready`. While an init() waits for onInit it has only emitted `init`
\* and called onInit; when it is the only init() so far, every `init`
\* listener has run by then and every dependency is still flagged false.
C26_InitStepsInOrder ==
    /\ \A i \in DOMAIN inits :
           LET log == inits[i].log IN
           /\ inits[i].pc = "resolved" =>
                  /\ Trace(log) = SuccessfulInit
                  /\ \A k \in Steps(log, "settle", "onInit") : log[k].arg = None
           /\ inits[i].pc = "awaitOnInit" =>
                  Trace(log) = <<<<"emit", "init">>, <<"call", "onInit">>>>
    /\ Len(inits) = 1 /\ inits[1].pc = "awaitOnInit" =>
           /\ dependencyHealth = AllFalse(config.dependencies)
           /\ healthCheckService = NoService
           /\ handlers = <<>>
           /\ Cardinality(InitHearings) = Len(listeners["init"])
           /\ \A a \in InitHearings :
                  heard[a].registry = AllFalse(config.dependencies)
    /\ Len(inits) = 1 /\ inits[1].pc = "resolved" =>
           /\ dependencyHealth = AllTrue(config.dependencies)
           /\ healthCheckService = 1
           /\ servers[1] = 0 \/ shutdowns # <<>>
           /\ handlers = <<"shutdown">>

\* C26 witness: with onInit configured and two `init` listeners, init()
\* resolved and the dependencies are flagged true
C26_Witness ==
    /\ config.onInit
    /\ listeners["init"] = <<"A", "B">>
    /\ Len(inits) = 1
    /\ inits[1].pc = "resolved"
    /\ Cardinality(InitHearings) = 2
    /\ dependencyHealth = AllTrue(config.dependencies)

\* the init() runs in which onInit and then onFailure rejected
DoubleFailures ==
    {i \in FailedInits :
         \E k \in Steps(inits[i].log, "settle", "onFailure") :
             inits[i].log[k].arg # None}

\* C27: when onInit rejected with E1 and onFailure then rejected with E2,
\* init() has rejected with E2 and not with E1; `failure` was emitted once,
\* with E1, before onFailure was invoked; and after onFailure's rejection
\* init() did nothing but reject: no second `failure`, no second onFailure.
C27_DoubleFailureRejectsWithSecondError ==
    \A i \in DoubleFailures :
        LET call == inits[i]
            log == call.log
            E1 == call.onInitErr
        IN  \A k \in Steps(log, "settle", "onFailure") :
                /\ call.pc = "rejected"
                /\ call.err = log[k].arg
                /\ call.err \in FailureErrors
                /\ call.err # E1
                /\ Cardinality(Steps(log, "emit", "failure")) = 1
                /\ StepsWith(log, "emit", "failure", E1) # {}
                /\ Cardinality(Steps(log, "call", "onFailure")) = 1
                /\ StepsWith(log, "call", "onFailure", E1) # {}
                /\ Before(log, "emit", "failure", "call", "onFailure")
                /\ Len(log) = k + 1
                /\ log[k + 1] = [op |-> "reject", name |-> "init",
                                 arg |-> log[k].arg]

\* C27 witness: onInit rejected with X, onFailure with E2, init() with E2
C27_Witness ==
    \E i \in DoubleFailures :
        /\ inits[i].onInitErr = "X"
        /\ inits[i].pc = "rejected"
        /\ inits[i].err = "E2"
        /\ emitted["failure"] = <<"X">>

\* the invocations of `done` listeners for the latest `done`
LastDoneHearings ==
    {a \in DOMAIN heard : /\ heard[a].event = "done"
                           /\ heard[a].emission = Len(emitted["done"])}

-----------------------------------------------------------------------------
(* Claims about the registry as a whole *)

AllEqual(flags) ==
    \/ \A d \in DOMAIN flags : flags[d]
    \/ \A d \in DOMAIN flags : ~flags[d]

\* C29 as claimed: the registry has the names given at construction as its
\* keys and is all false or all true, and no snapshot returned by a query
\* reports some dependencies true and others false.
C29_RegistryAllOrNothing ==
    /\ dependencyHealth \in {AllFalse(config.dependencies),
                              AllTrue(config.dependencies)}
    /\ \A k \in DOMAIN queries : AllEqual(queries[k].deps)
    /\ \A k \in Returned : AllEqual(Reported(queries[k].result))

-----------------------------------------------------------------------------
(* Claims about the order of the callbacks of one health query *)

\* the queries of a lifecycle configured with both isHealthy and onPing
BothConfigured == {k \in DOMAIN queries : config.isHealthy /\ config.onPing}

\* C31 as claimed: in a query of a lifecycle with both callbacks, onPing is
\* invoked only after isHealthy was invoked and has settled, and a query
\* whose isHealthy failed has not invoked onPing.
C31_IsHealthyAwaitedBeforeOnPing ==
    \A k \in BothConfigured :
        LET log == queries[k].log IN
        /\ \A b \in Steps(log, "call", "onPing") :
               \E a \in Steps(log, "settle", "isHealthy") : a < b
        /\ StepsWith(log, "settle", "isHealthy", "EH") # {} =>
               Steps(log, "call", "onPing") = {}

-----------------------------------------------------------------------------
(* Claims about shutdown() after a failed init() *)

\* the shutdown() runs invoked after the first init() had failed because
\* onInit rejected, with no health server started
AfterFailedInit ==
    {r \in DOMAIN shutdowns :
         /\ shutdowns[r].phase = "Failed"
         /\ inits[1].onInitErr # None
         /\ shutdowns[r].handle = NoService}

\* the part of C32 about close(): such a run never invokes close()
AfterFailedInitNoClose ==
    \A r \in AfterFailedInit : Steps(shutdowns[r].log, "call", "close") = {}

\* C32 as claimed, for a lifecycle whose `done` listeners do not throw: a
\* shutdown() run invoked after a failed init() invokes no close(), invokes
\* onShutdown (when configured) exactly once, and ends only by emitting
\* `done` and terminating the process with status 0.
C32_ShutdownAfterFailedInit ==
    \A r \in AfterFailedInit :
        LET run == shutdowns[r] IN
        ~Throws("done") =>
        /\ Steps(run.log, "call", "close") = {}
        /\ Cardinality(Steps(run.log, "call", "onShutdown")) <= 1
        /\ Settled(run.pc) =>
               /\ run.pc = "exited"
               /\ config.onShutdown =>
                      Cardinality(Steps(run.log, "call", "onShutdown")) = 1
               /\ Steps(run.log, "emit", "done") # {}
               /\ exitCode = 0

-----------------------------------------------------------------------------
(* Initialization and shutdown when every awaited callback settles *)

InitLive ==
    \E onInit \in BOOLEAN, onFailure \in BOOLEAN, onShutdown \in BOOLEAN :
        Construct([NoConfig EXCEPT !.dependencies = Distinct(MaxDeps),
                                   !.onInit = onInit,
                                   !.onFailure = onFailure,
                                   !.onShutdown = onShutdown],
                  NoListeners)

NextLive ==
    \/ CallInit
    \/ \E i \in DOMAIN inits, outcome \in {None} \cup InitErrors :
           OnInitSettles(i, outcome)
    \/ \E i \in DOMAIN inits, outcome \in {None} \cup FailureErrors :
           OnFailureSettles(i, outcome)
    \/ CallShutdown
    \/ \E r \in DOMAIN shutdowns, outcome \in {None} \cup CloseErrors :
           CloseSettles(r, outcome)
    \/ \E r \in DOMAIN shutdowns, outcome \in {None} \cup ShutdownErrors :
           OnShutdownSettles(r, outcome)
    \/ CallGetHealthState

\* a promise that is awaited is settled at some time, and the invocation
\* that awaits it is resumed by the event loop as long as the process lives
Settling ==
    /\ WF_vars(\E i \in DOMAIN inits, outcome \in {None} \cup InitErrors :
                   OnInitSettles(i, outcome))
    /\ WF_vars(\E i \in DOMAIN inits, outcome \in {None} \cup FailureErrors :
                   OnFailureSettles(i, outcome))
    /\ WF_vars(\E r \in DOMAIN shutdowns, outcome \in {None} \cup CloseErrors :
                   CloseSettles(r, outcome))
    /\ WF_vars(\E r \in DOMAIN shutdowns, outcome \in {None} \cup ShutdownErrors :
                   OnShutdownSettles(r, outcome))

SpecLive == InitLive /\ [][NextLive]_vars /\ Settling

-----------------------------------------------------------------------------
(* Claims about runs that finish *)

\* init() number i was invoked
InitStarted(i) == i \in DOMAIN inits

\* init() number i emitted `ready` and resolved, or emitted `failure` and
\* rejected
InitFinished(i) ==
    /\ i \in DOMAIN inits
    /\ \/ /\ inits[i].pc = "resolved"
          /\ Steps(inits[i].log, "emit", "ready") # {}
       \/ /\ inits[i].pc = "rejected"
          /\ Steps(inits[i].log, "emit", "failure") # {}

\* C33 as claimed: when the awaited callbacks settle, every init() that was
\* started eventually emits `ready` and resolves or emits `failure` and
\* rejects, whatever else is called meanwhile, and once a shutdown() was
\* started the process eventually terminates.
C33_StartedRunsFinish ==
    /\ \A i \in 1..MaxCalls : InitStarted(i) ~> InitFinished(i)
    /\ (Len(shutdowns) > 0) ~> (exitCode # Running)

\* the part of C33 that holds: an init() that was started finishes unless
\* the process is terminated first, and health queries do not hold it up
InitFinishesWhileAlive ==
    \A i \in 1..MaxCalls :
        InitStarted(i) ~> (InitFinished(i) \/ exitCode # Running)

-----------------------------------------------------------------------------
(* Claims about what makes init() fail *)

\* C34 as claimed: no init() run emits both `ready` and `failure`, and a run
\* emits `failure` or invokes onFailure only when its onInit rejected.
C34_FailureOnlyFromOnInit ==
    \A i \in DOMAIN inits :
        LET log == inits[i].log IN
        /\ ~(Steps(log, "emit", "ready") # {} /\ Steps(log, "emit", "failure") # {})
        /\ Steps(log, "emit", "failure") # {} => inits[i].onInitErr # None
        /\ Steps(log, "call", "onFailure") # {} => inits[i].onInitErr # None

\* the first part of C34 alone: no run emits both `ready` and `failure`
ReadyExcludesFailure ==
    \A i \in DOMAIN inits :
        ~(/\ Steps(inits[i].log, "emit", "ready") # {}
          /\ Steps(inits[i].log, "emit", "failure") # {})

-----------------------------------------------------------------------------
(* Claims about the registry over time *)

\* no step takes a dependency flag from true back to false
FlagsNeverReset ==
    \A d \in DOMAIN dependencyHealth :
        dependencyHealth[d] => dependencyHealth'[d]

\* the snapshots of the queries that read the registry after init() had
\* marked it ready
SnapshotsAfterMark ==
    {k \in Returned : /\ config.dependencies # <<>>
                      /\ queries[k].deps = AllTrue(config.dependencies)}

\* C35 as claimed: no step takes a dependency flag from true back to false,
\* and every snapshot of a query that read the registry after init() marked
\* it reports every declared dependency true.
C35_FlagsStayTrue ==
    /\ [][FlagsNeverReset]_vars
    /\ [](\A k \in SnapshotsAfterMark :
              \A d \in DOMAIN dependencyHealth :
                  /\ d \in DOMAIN Reported(queries[k].result)
                  /\ Reported(queries[k].result)[d] = TRUE)

\* the registry part of C35 alone
RegistryFlagsMonotone == [][FlagsNeverReset]_vars

-----------------------------------------------------------------------------
(* Claims about the health server handle *)

\* the handlers that init() registered: their callback is shutdown()
ControllerHandlers == {k \in DOMAIN handlers : handlers[k] = "shutdown"}

\* the shutdown() runs that a signal handler invoked
SignalShutdowns == {r \in DOMAIN shutdowns : shutdowns[r].via # 0}

\* C36: whenever the controller's signal handlers are registered, the stored
\* handle is that of a health server that was started; so every shutdown()
\* run invoked by a signal handler begins by invoking close() on a started
\* server, and invokes onShutdown only after that close() has resolved.
C36_HandlersImplyServer ==
    /\ ControllerHandlers # {} => healthCheckService \in DOMAIN servers
    /\ \A r \in SignalShutdowns :
           LET run == shutdowns[r] IN
           /\ run.handle \in DOMAIN servers
           /\ run.log # <<>>
           /\ run.log[1].op = "call" /\ run.log[1].name = "close"
           /\ run.server = run.handle
           /\ \A b \in Steps(run.log, "call", "onShutdown") :
                  \E a \in StepsWith(run.log, "settle", "close", None) : a < b

\* C36 witness: SIGTERM or SIGINT was received, the handler invoked
\* shutdown(), which closed the health server and then invoked onShutdown
C36_Witness ==
    \E r \in SignalShutdowns :
        /\ ControllerHandlers # {}
        /\ received # <<>>
        /\ servers[shutdowns[r].server] > 0
        /\ StepsWith(shutdowns[r].log, "settle", "close", None) # {}
        /\ Steps(shutdowns[r].log, "call", "onShutdown") # {}

\* the health servers on which close() was never invoked
NeverClosed == {sv \in DOMAIN servers : servers[sv] = 0}

\* a step in which a shutdown() run emits `done`
DoneEmitted == Len(emitted'["done"]) > Len(emitted["done"])

\* C37 as claimed: at the moment a shutdown() run emits `done`, close() has
\* been invoked on every health server that was started.
C37_EveryServerClosedAtDone ==
    [][DoneEmitted => NeverClosed' = {}]_vars

\* C37 for a lifecycle on which init() was called once and had settled
\* before the first shutdown(): the one server started is closed at `done`
OneServerClosedAtDone ==
    [][/\ DoneEmitted
       /\ Len(inits) = 1
       /\ \A r \in DOMAIN shutdowns : shutdowns[r].phase \in {"Ready", "Failed"}
       => NeverClosed' = {}]_vars

====
